---- MODULE Spec2Model ----
(***************************************************************************)
(* codex_status: the credential-refresh-and-poll engine of                 *)
(* src/codex_status.js.  One pass (renderOnce) runs an account session     *)
(* (collectUsageForAuth) for every configured auth file, in order; in      *)
(* --tail mode runTailLoop repeats the pass on a timer until a quit key.    *)
(*                                                                         *)
(* The program is single-threaded: a step of the model is one turn of the  *)
(* event loop (an I/O completion, a timer, a key press) or the resumption  *)
(* of an awaiting caller, which runs before any other event is taken.      *)
(***************************************************************************)
EXTENDS Integers, Sequences, FiniteSets, TLC

\* ------------------------------------------------------------ constants
EXP_SKEW_SECONDS == 60
REFRESH_INTERVAL_MS == 30000
POLL_INTERVAL_MS == 500

\* ------------------------------------------------------------ bounds
\* number of --auth arguments of the run
NumAccounts == 2
\* the model stops the timers this long after the start, in ms
HorizonMs == 32000
\* Date.now() when the process starts, in ms
StartMs == 1000000
\* duration of a slow remote call, in ms
SlowCallMs == 700
\* a timer may fire this much later than asked, in ms
TimerLagMs == 200
\* late timers a run of the model may see
MaxLateTimers == 1
\* slow remote calls a run of the model may see
MaxSlowCalls == 1
\* token pairs the token endpoint issues in a run of the model
MaxIssued == 1
\* token pairs the token endpoint issues in a run of a single pass
MaxIssuedOnce == 2
\* account sessions a run of the model may start
MaxSessions == 3
\* key presses the terminal delivers in one chunk sequence
MaxKeys == 2
\* times an auth file is replaced from outside during a run of the model
MaxDiskChanges == 1

Accounts == 1..NumAccounts

Min(a, b) == IF a <= b THEN a ELSE b
Max(a, b) == IF a >= b THEN a ELSE b

\* ------------------------------------------------------------ tokens
\* A JSON value read where a token string is expected.  type "str" is a
\* non-empty string of `parts` segments separated by dots whose second
\* segment base64url-decodes to the text described by `payload`;
\* "empty" is the string ""; "absent" is undefined (or any non-string).
Tok(n, parts, payload, exp) ==
    [type |-> "str", name |-> n, parts |-> parts, payload |-> payload, exp |-> exp]
Absent == [type |-> "absent", name |-> 0, parts |-> 0, payload |-> "none", exp |-> 0]
EmptyStr == [type |-> "empty", name |-> 0, parts |-> 1, payload |-> "none", exp |-> 0]

\* JavaScript truthiness of such a value
Truthy(t) == t.type = "str"

PayloadKinds == {"garbage", "null", "noexp", "strexp", "numexp"}

\* decodeJwtPayload: null for a non-string or fewer than two segments,
\* otherwise JSON.parse of the decoded second segment, which throws on text
\* that is not JSON
decodeJwtPayload(token) ==
    IF token.type = "absent" THEN [kind |-> "null", expType |-> "undefined", exp |-> 0]
    ELSE IF token.parts < 2 THEN [kind |-> "null", expType |-> "undefined", exp |-> 0]
    ELSE CASE token.payload = "garbage" -> [kind |-> "throw", expType |-> "undefined", exp |-> 0]
           [] token.payload = "null"    -> [kind |-> "null", expType |-> "undefined", exp |-> 0]
           [] token.payload = "noexp"   -> [kind |-> "obj", expType |-> "undefined", exp |-> 0]
           [] token.payload = "strexp"  -> [kind |-> "obj", expType |-> "string", exp |-> token.exp]
           [] token.payload = "numexp"  -> [kind |-> "obj", expType |-> "number", exp |-> token.exp]
           [] OTHER                     -> [kind |-> "throw", expType |-> "undefined", exp |-> 0]

\* shouldRefreshNow with the skew margin left out
shouldRefreshNow_noSkew(accessToken, nowMs) ==
    LET payload == decodeJwtPayload(accessToken) IN
    IF payload.kind = "throw" THEN FALSE
    ELSE IF payload.kind = "null" \/ payload.expType # "number" THEN FALSE
    ELSE (nowMs \div 1000) >= payload.exp

\* shouldRefreshNow at wall-clock time nowMs
shouldRefreshNow(accessToken, nowMs) ==
    LET payload == decodeJwtPayload(accessToken) IN
    IF payload.kind = "throw" THEN FALSE
    ELSE IF payload.kind = "null" \/ payload.expType # "number" THEN FALSE
    ELSE (nowMs \div 1000) >= payload.exp - EXP_SKEW_SECONDS

\* validateTokenBundle without the check of the length
validateTokenBundle_anyString(tokens) ==
    tokens.access_token.type \in {"str", "empty"}

\* validateTokenBundle: TRUE when it does not throw
validateTokenBundle(tokens) ==
    tokens.access_token.type = "str"

\* ------------------------------------------------------------ bundles
\* expiry claims (seconds) of the access tokens the run starts with
FreshExp == (StartMs \div 1000) + 100000
StaleExp == (StartMs \div 1000) - 10

FreshAccess == Tok(1, 3, "numexp", FreshExp)
StaleAccess == Tok(1, 3, "numexp", StaleExp)
RefreshTok(n) == Tok(n, 1, "none", 0)
IdTok(n) == Tok(n, 3, "noexp", 0)

Bundle(at, rt, it, lr) ==
    [ok |-> TRUE, tokens |-> [access_token |-> at, refresh_token |-> rt, id_token |-> it],
     last_refresh |-> lr]
\* a file that cannot be read or is not JSON
Unreadable ==
    [ok |-> FALSE, tokens |-> [access_token |-> Absent, refresh_token |-> Absent, id_token |-> Absent],
     last_refresh |-> 0]

\* the bundle a new login writes into an auth file while the tool runs
LoginBundle == Bundle(Tok(5, 3, "numexp", FreshExp), RefreshTok(5), IdTok(5), 0)

InitialBundles ==
    {Unreadable,
     Bundle(Absent, RefreshTok(1), IdTok(1), 0),
     Bundle(EmptyStr, RefreshTok(1), IdTok(1), 0)}
    \cup {Bundle(at, rt, IdTok(1), 0) :
            at \in {FreshAccess, StaleAccess}, rt \in {Absent, RefreshTok(1)}}


\* ------------------------------------------------------------ remote services
\* time a remote call may take, in ms
Latencies == {0, SlowCallMs}

\* HTTP statuses the usage endpoint may answer with
UsageStatuses == {200, 401, 500}

\* the type of plan_type in the body of a 200 answer: formatPlan calls
\* charAt on it, which a string has and a number has not
PlanTypes == {"string", "number"}

\* bodies the token endpoint may answer with, for a bundle whose access token
\* is of generation g: a failure status, or a success carrying none, some or
\* all of access_token, id_token, refresh_token
TokenResponses(g) ==
    {[ok |-> FALSE, access_token |-> Absent, id_token |-> Absent, refresh_token |-> Absent],
     [ok |-> TRUE, access_token |-> Absent, id_token |-> IdTok(g + 1), refresh_token |-> RefreshTok(g + 1)]}
    \cup {[ok |-> TRUE, access_token |-> Tok(g + 1, 3, "numexp", FreshExp), id_token |-> it, refresh_token |-> rt] :
            it \in {Absent, IdTok(g + 1)}, rt \in {Absent, RefreshTok(g + 1)}}

\* ------------------------------------------------------------ state
VARIABLES
    jsonFlag,      \* --json was given
    tailMode,      \* --tail was given
    now,           \* Date.now()
    disk,          \* the auth file of every account
    disk0,         \* history: the auth files when the process started
    diskChanges,   \* history: replacements of an auth file from outside
    aborted,       \* abortController.signal.aborted
    resolved,      \* setupTailInput: the quit promise is resolved
    quitKeys,      \* history: quit keys the handler has read
    aborts,        \* history: calls of abortController.abort()
    resolves,      \* history: calls of resolveQuit()
    errorLog,      \* what console.error printed for a failure of the run
    loop,          \* where main / runTailLoop is
    lastRenderAt,  \* runTailLoop's lastRenderAt
    waitDuration,  \* runTailLoop's waitDuration of the pending sleep
    passStarts,    \* history: Date.now() at every start of a pass
    lateTimers,    \* history: timers that fired late
    slowCalls,     \* history: remote calls that were slow
    issued,        \* history: token pairs issued by the token endpoint
    pc,            \* where the running pass is
    idx,           \* index in authPaths of the running session
    results,       \* renderOnce's results
    sessions,      \* history: the sessions finished in the running pass
    auth,          \* collectUsageForAuth's auth (tokens is auth.tokens)
    attempt,       \* 1 in the try block of the usage call, 2 in its catch
    phase,         \* the refresh in progress: proactive or reactive
    refreshed,     \* refreshTokensAndPersist's refreshed: the token endpoint's body
    trace,         \* history: the remote calls and writes of the session
    outcome,       \* how collectUsageForAuth ended
    rendered,      \* the entries given to renderResults by the step just taken
    renders,       \* history: calls of renderResults
    probe          \* the staleness check applied to one token at one time

vars == <<jsonFlag, tailMode, now, disk, disk0, diskChanges, aborted, resolved, quitKeys,
          aborts, resolves, errorLog, loop, lastRenderAt, waitDuration,
          passStarts, lateTimers, slowCalls, issued, pc, idx, results, sessions, auth, attempt,
          phase, refreshed, trace, outcome, rendered, renders, probe>>

sessVars == <<auth, attempt, phase, refreshed, trace, outcome>>

\* how a session ended: kind, the message of what it threw, and for a
\* result the type of its planFromUsage
NoOutcome == [kind |-> "none", error |-> "", plan |-> "none"]
OkOutcome == [kind |-> "ok", error |-> "", plan |-> "string"]
OddOutcome == [kind |-> "ok", error |-> "", plan |-> "number"]
AbortOutcome == [kind |-> "abort", error |-> "Aborted", plan |-> "none"]
Err(msg) == [kind |-> "error", error |-> msg, plan |-> "none"]

NoResponse ==
    [ok |-> FALSE, access_token |-> Absent, id_token |-> Absent, refresh_token |-> Absent]

\* an entry of the session's history: a call made, an answer received (at
\* time `at`), a write of the auth file
Event(ev, tok, st, at) == [ev |-> ev, tok |-> tok, st |-> st, at |-> at]

NoProbe == [token |-> Absent, at |-> 0, state |-> "unused", stale |-> FALSE]

InitProgram ==
    /\ jsonFlag \in BOOLEAN
    /\ tailMode \in BOOLEAN
    /\ now = StartMs
    /\ disk \in [Accounts -> InitialBundles]
    /\ disk0 = disk
    /\ diskChanges = 0
    /\ aborted = FALSE
    /\ resolved = FALSE
    /\ quitKeys = 0
    /\ aborts = 0
    /\ resolves = 0
    /\ errorLog = ""
    /\ loop = "idle"
    /\ lastRenderAt = 0
    /\ waitDuration = 0
    /\ passStarts = <<>>
    /\ lateTimers = 0
    /\ slowCalls = 0
    /\ issued = 0
    /\ pc = "none"
    /\ idx = 0
    /\ results = <<>>
    /\ sessions = <<>>
    /\ auth = Unreadable
    /\ attempt = 0
    /\ phase = "none"
    /\ refreshed = NoResponse
    /\ trace = <<>>
    /\ outcome = NoOutcome
    /\ rendered = <<>>
    /\ renders = 0

Init ==
    /\ InitProgram
    /\ probe = NoProbe

\* ------------------------------------------------------------ helpers
\* parseArgs over the options of the command line: --tail sets tailMode, any
\* argument it does not know (--json is one) makes it throw
parseArgs(json, tail) ==
    IF json
    THEN [ok |-> FALSE, tailMode |-> FALSE, error |-> "Unknown argument: --json"]
    ELSE [ok |-> TRUE, tailMode |-> tail, error |-> ""]

\* the keys a chunk of stdin may be
Keys == {"q", "Q", "ctrl-c", "x"}
QuitKeys == {"q", "Q", "ctrl-c"}

\* the handler without its test of resolved
handler_noGuard(h, key) ==
    IF key \in QuitKeys
    THEN [resolved |-> TRUE, aborted |-> TRUE, quitKeys |-> h.quitKeys + 1,
          aborts |-> h.aborts + 1, resolves |-> h.resolves + 1]
    ELSE h

\* setupTailInput's handler on one chunk, h holding resolved, the state of
\* the signal and the counts of the calls made so far
handler(h, key) ==
    IF key \in QuitKeys /\ ~h.resolved
    THEN [resolved |-> TRUE, aborted |-> TRUE, quitKeys |-> h.quitKeys + 1,
          aborts |-> h.aborts + 1, resolves |-> h.resolves + 1]
    ELSE [h EXCEPT !.quitKeys = IF key \in QuitKeys THEN @ + 1 ELSE @]

\* the handler run on every chunk of ks in turn
RECURSIVE HandleKeys(_, _)
HandleKeys(h, ks) ==
    IF ks = <<>> THEN h ELSE HandleKeys(handler(h, Head(ks)), Tail(ks))

\* chunk sequences the terminal may deliver back to back, a quit key among them
KeyBursts ==
    {ks \in UNION {[1..n -> Keys] : n \in 1..MaxKeys} :
        \E i \in DOMAIN ks : ks[i] \in QuitKeys}

\* ensureNotAborted: TRUE when it throws
ensureNotAborted == aborted

\* isAbortError taking every failure for a cancellation
isAbortError_everyError(o) == o.kind \in {"abort", "error"}

\* isAbortError recognising nothing
isAbortError_never(o) == FALSE

\* isAbortError of what a session ended with
isAbortError(o) == o.kind = "abort"

\* collectUsageForAuth ends (returns or throws) with outcome o
Return(o, a, tr) ==
    /\ pc' = "returned"
    /\ outcome' = o
    /\ auth' = a
    /\ trace' = tr
    /\ refreshed' = NoResponse
    /\ UNCHANGED <<attempt, phase>>

\* fetchUsage up to its fetch, with the ensureNotAborted before it
BeginUsage(a, tr, n) ==
    IF ensureNotAborted
    THEN Return(AbortOutcome, a, tr)
    ELSE /\ pc' = "usage"
         /\ auth' = a
         /\ attempt' = n
         /\ trace' = Append(tr, Event("usage", a.tokens.access_token, 0, 0))
         /\ refreshed' = NoResponse
         /\ UNCHANGED <<phase, outcome>>

\* refreshTokensAndPersist without its ensureNotAborted
BeginRefresh_unchecked(a, tr, ph, refreshToken) ==
    IF ~Truthy(refreshToken)
    THEN Return(Err("refresh_token is missing"), a, tr)
    ELSE /\ pc' = "refresh"
         /\ auth' = a
         /\ phase' = ph
         /\ trace' = Append(tr, Event("token", refreshToken, 0, 0))
         /\ UNCHANGED <<attempt, refreshed, outcome>>

\* refreshTokensAndPersist up to the fetch of requestTokenRefresh
BeginRefresh(a, tr, ph, refreshToken) ==
    IF ~Truthy(refreshToken)
    THEN Return(Err("refresh_token is missing"), a, tr)
    ELSE IF ensureNotAborted
    THEN Return(AbortOutcome, a, tr)
    ELSE /\ pc' = "refresh"
         /\ auth' = a
         /\ phase' = ph
         /\ trace' = Append(tr, Event("token", refreshToken, 0, 0))
         /\ UNCHANGED <<attempt, refreshed, outcome>>

\* refreshTokensAndPersist assigning id_token and refresh_token unconditionally
ApplyRefresh_clobber(a, r, t) ==
    [ok |-> TRUE,
     tokens |-> [access_token |-> r.access_token,
                 id_token |-> r.id_token,
                 refresh_token |-> r.refresh_token],
     last_refresh |-> t]

\* refreshTokensAndPersist never storing the refresh token of the response
ApplyRefresh_keepRefreshToken(a, r, t) ==
    [ok |-> TRUE,
     tokens |-> [access_token |-> r.access_token,
                 id_token |-> IF Truthy(r.id_token) THEN r.id_token ELSE a.tokens.id_token,
                 refresh_token |-> a.tokens.refresh_token],
     last_refresh |-> t]

\* refreshTokensAndPersist after requestTokenRefresh returned r: the bundle
\* as it is mutated in memory, stamped at time t
ApplyRefresh(a, r, t) ==
    [ok |-> TRUE,
     tokens |-> [access_token |-> r.access_token,
                 id_token |-> IF Truthy(r.id_token) THEN r.id_token ELSE a.tokens.id_token,
                 refresh_token |-> IF Truthy(r.refresh_token)
                                   THEN r.refresh_token ELSE a.tokens.refresh_token],
     last_refresh |-> t]

\* the proactive refresh attempted without looking for a refresh token
NeedsProactiveRefresh_anyBundle(a, t) ==
    shouldRefreshNow(a.tokens.access_token, t)

\* the proactive refresh with the test of staleness inverted
NeedsProactiveRefresh_inverted(a, t) ==
    ~shouldRefreshNow(a.tokens.access_token, t) /\ Truthy(a.tokens.refresh_token)

\* collectUsageForAuth: the condition of the proactive refresh, at time t
NeedsProactiveRefresh(a, t) ==
    shouldRefreshNow(a.tokens.access_token, t) /\ Truthy(a.tokens.refresh_token)

\* the refresh and retry applied to the retry as well
ShouldRetry_anyAttempt(status, n, a) ==
    status = 401 /\ Truthy(a.tokens.refresh_token)

\* collectUsageForAuth: the condition of the refresh and retry; the catch
\* guards usage call n = 1 only
ShouldRetry(status, n, a) ==
    n = 1 /\ status = 401 /\ Truthy(a.tokens.refresh_token)

\* the start of collectUsageForAuth for authPaths[i], up to its readFile
BeginSession(i) ==
    /\ idx' = i
    /\ auth' = Unreadable
    /\ attempt' = 0
    /\ phase' = "none"
    /\ refreshed' = NoResponse
    /\ trace' = <<>>
    /\ outcome' = NoOutcome
    /\ pc' = IF ensureNotAborted THEN "pass_abort" ELSE "read"

\* renderOnce up to the first await
BeginPass ==
    /\ results' = <<>>
    /\ sessions' = <<>>
    /\ BeginSession(1)

\* no pass is running: the locals of renderOnce and collectUsageForAuth are gone
ClearPass ==
    /\ pc' = "none"
    /\ idx' = 0
    /\ results' = <<>>
    /\ sessions' = <<>>
    /\ auth' = Unreadable
    /\ attempt' = 0
    /\ phase' = "none"
    /\ refreshed' = NoResponse
    /\ trace' = <<>>
    /\ outcome' = NoOutcome

\* runTailLoop sleeping the whole remaining time in one timer
LoopTop_fullSleep(lra, t) ==
    IF lra = 0 \/ t - lra >= REFRESH_INTERVAL_MS
    THEN /\ loop' = "pass"
         /\ waitDuration' = 0
         /\ passStarts' = Append(passStarts, t)
         /\ BeginPass
    ELSE /\ loop' = "sleep"
         /\ waitDuration' = Max(0, REFRESH_INTERVAL_MS - (t - lra))
         /\ UNCHANGED passStarts
         /\ ClearPass

\* runTailLoop starting the pass without awaiting it
LoopTop_noAwait(lra, t) ==
    IF lra = 0 \/ t - lra >= REFRESH_INTERVAL_MS
    THEN /\ loop' = "sleep"
         /\ waitDuration' = POLL_INTERVAL_MS
         /\ passStarts' = Append(passStarts, t)
         /\ BeginPass
    ELSE /\ loop' = "sleep"
         /\ waitDuration' = Min(POLL_INTERVAL_MS, Max(0, REFRESH_INTERVAL_MS - (t - lra)))
         /\ UNCHANGED passStarts
         /\ ClearPass

\* the top of runTailLoop's while loop at time t, lastRenderAt being lra:
\* start a pass when one is due, else start a sleep of waitDuration
LoopTop(lra, t) ==
    IF lra = 0 \/ t - lra >= REFRESH_INTERVAL_MS
    THEN /\ loop' = "pass"
         /\ waitDuration' = 0
         /\ passStarts' = Append(passStarts, t)
         /\ BeginPass
    ELSE /\ loop' = "sleep"
         /\ waitDuration' = Min(POLL_INTERVAL_MS, Max(0, REFRESH_INTERVAL_MS - (t - lra)))
         /\ UNCHANGED passStarts
         /\ ClearPass

\* the record renderOnce pushes for a session that ended with outcome o
ResultEntry(i, o) == [authFile |-> i, error |-> o.error, plan |-> o.plan]

\* buildCardLines throws on an entry: formatPlan of a plan that is no string
CardThrows(entry) == entry.plan = "number"

\* the entries renderResults prints before it returns or throws
Printed(entries) ==
    IF \E i \in 1..Len(entries) : CardThrows(entries[i])
    THEN SubSeq(entries, 1,
                (CHOOSE i \in 1..Len(entries) :
                    CardThrows(entries[i]) /\ \A j \in 1..(i - 1) : ~CardThrows(entries[j])) - 1)
    ELSE entries

\* renderResults throws on these entries
RenderThrows(entries) == \E i \in 1..Len(entries) : CardThrows(entries[i])


\* what a step of a session leaves alone
loopFrame == <<jsonFlag, tailMode, disk0, diskChanges, aborted, resolved, quitKeys, aborts,
               resolves, errorLog, loop, lastRenderAt, waitDuration, passStarts,
               lateTimers, renders, probe>>

\* token pairs the token endpoint may issue in this run
IssuedBudget == IF tailMode THEN MaxIssued ELSE MaxIssuedOnce

\* ------------------------------------------------------------ actions
\* main: a single pass, or setupTailInput and the first turn of runTailLoop
Start ==
    /\ loop = "idle"
    /\ probe = NoProbe
    /\ LET parsed == parseArgs(jsonFlag, tailMode) IN
       IF ~parsed.ok
       THEN /\ loop' = "rejected"
            /\ errorLog' = parsed.error
            /\ ClearPass
            /\ UNCHANGED <<waitDuration, passStarts>>
       ELSE /\ errorLog' = errorLog
            /\ IF parsed.tailMode
               THEN LoopTop(0, now)
               ELSE /\ loop' = "pass"
                    /\ passStarts' = Append(passStarts, now)
                    /\ BeginPass
                    /\ UNCHANGED waitDuration
    /\ rendered' = <<>>
    /\ UNCHANGED <<jsonFlag, tailMode, now, disk, disk0, diskChanges, aborted, resolved,
                   quitKeys, aborts, resolves, lastRenderAt, lateTimers,
                   slowCalls, issued, renders, probe>>

\* collectUsageForAuth using, after the first pass, the bundle as it was read
\* in the first pass
ReadSettles_cached ==
    /\ pc = "read"
    /\ LET a == IF Len(passStarts) > 1 THEN disk0[idx] ELSE disk[idx] IN
       IF ~a.ok
       THEN Return(Err("cannot read auth file"), auth, trace)
       ELSE IF ~validateTokenBundle(a.tokens)
       THEN Return(Err("auth.json does not contain ChatGPT tokens"), a, trace)
       ELSE IF NeedsProactiveRefresh(a, now)
       THEN IF ensureNotAborted
            THEN Return(AbortOutcome, a, trace)
            ELSE BeginRefresh(a, trace, "proactive", a.tokens.refresh_token)
       ELSE BeginUsage(a, trace, 1)
    /\ rendered' = <<>>
    /\ UNCHANGED <<loopFrame, now, disk, slowCalls, issued, idx, results, sessions>>

\* readAuth settles; collectUsageForAuth runs on to its first remote call
ReadSettles ==
    /\ pc = "read"
    /\ LET a == disk[idx] IN
       IF ~a.ok
       THEN Return(Err("cannot read auth file"), auth, trace)
       ELSE IF ~validateTokenBundle(a.tokens)
       THEN Return(Err("auth.json does not contain ChatGPT tokens"), a, trace)
       ELSE IF NeedsProactiveRefresh(a, now)
       THEN IF ensureNotAborted
            THEN Return(AbortOutcome, a, trace)
            ELSE BeginRefresh(a, trace, "proactive", a.tokens.refresh_token)
       ELSE BeginUsage(a, trace, 1)
    /\ rendered' = <<>>
    /\ UNCHANGED <<loopFrame, now, disk, slowCalls, issued, idx, results, sessions>>

\* refreshTokensAndPersist with an ensureNotAborted after requestTokenRefresh
RefreshSettles_checked ==
    /\ pc = "refresh"
    /\ \E d \in Latencies, r \in TokenResponses(auth.tokens.access_token.name) :
        /\ d > 0 => slowCalls < MaxSlowCalls
        /\ Truthy(r.access_token) => issued < IssuedBudget
        /\ slowCalls' = IF d > 0 THEN slowCalls + 1 ELSE slowCalls
        /\ issued' = IF Truthy(r.access_token) THEN issued + 1 ELSE issued
        /\ now' = now + d
        /\ IF ~r.ok
           THEN Return(Err("token endpoint failed"), auth,
                       Append(trace, Event("tstatus", Absent, 400, now')))
           ELSE IF ~Truthy(r.access_token)
           THEN Return(Err("no access_token was returned"), auth,
                       Append(trace, Event("tstatus", Absent, 200, now')))
           ELSE IF ensureNotAborted
           THEN Return(AbortOutcome, auth,
                       trace \o <<Event("tstatus", r.access_token, 200, now'),
                                  Event("rotated", r.refresh_token, 200, now')>>)
           ELSE /\ pc' = "write"
                /\ refreshed' = r
                /\ auth' = ApplyRefresh(auth, r, now')
                /\ trace' = trace \o <<Event("tstatus", r.access_token, 200, now'),
                                        Event("rotated", r.refresh_token, 200, now')>>
                /\ UNCHANGED <<attempt, phase, outcome>>
    /\ rendered' = <<>>
    /\ UNCHANGED <<loopFrame, disk, idx, results, sessions>>

\* refreshTokensAndPersist storing what the response carries before it looks
\* for the access token
RefreshSettles_storeFirst ==
    /\ pc = "refresh"
    /\ \E d \in Latencies, r \in TokenResponses(auth.tokens.access_token.name) :
        /\ d > 0 => slowCalls < MaxSlowCalls
        /\ Truthy(r.access_token) => issued < IssuedBudget
        /\ slowCalls' = IF d > 0 THEN slowCalls + 1 ELSE slowCalls
        /\ issued' = IF Truthy(r.access_token) THEN issued + 1 ELSE issued
        /\ now' = now + d
        /\ IF ~r.ok
           THEN Return(Err("token endpoint failed"), auth,
                       Append(trace, Event("tstatus", Absent, 400, now')))
           ELSE IF ~Truthy(r.access_token)
           THEN Return(Err("no access_token was returned"),
                       [auth EXCEPT !.tokens.refresh_token = r.refresh_token,
                                    !.tokens.id_token = r.id_token],
                       Append(trace, Event("tstatus", Absent, 200, now')))
           ELSE /\ pc' = "write"
                /\ refreshed' = r
                /\ auth' = ApplyRefresh(auth, r, now')
                /\ trace' = trace \o <<Event("tstatus", r.access_token, 200, now'),
                                        Event("rotated", r.refresh_token, 200, now')>>
                /\ UNCHANGED <<attempt, phase, outcome>>
    /\ rendered' = <<>>
    /\ UNCHANGED <<loopFrame, disk, idx, results, sessions>>

\* the token endpoint answers and the body is read to its end (also the
\* body of an answer that was arriving when the signal was tripped); on
\* success the bundle is mutated and its write is started
RefreshSettles ==
    /\ pc = "refresh"
    /\ \E d \in Latencies, r \in TokenResponses(auth.tokens.access_token.name) :
        /\ d > 0 => slowCalls < MaxSlowCalls
        /\ Truthy(r.access_token) => issued < IssuedBudget
        /\ slowCalls' = IF d > 0 THEN slowCalls + 1 ELSE slowCalls
        /\ issued' = IF Truthy(r.access_token) THEN issued + 1 ELSE issued
        /\ now' = now + d
        /\ IF ~r.ok
           THEN Return(Err("token endpoint failed"), auth,
                       Append(trace, Event("tstatus", Absent, 400, now')))
           ELSE IF ~Truthy(r.access_token)
           THEN Return(Err("no access_token was returned"), auth,
                       Append(trace, Event("tstatus", Absent, 200, now')))
           ELSE /\ pc' = "write"
                /\ refreshed' = r
                /\ auth' = ApplyRefresh(auth, r, now')
                /\ trace' = trace \o <<Event("tstatus", r.access_token, 200, now'),
                                        Event("rotated", r.refresh_token, 200, now')>>
                /\ UNCHANGED <<attempt, phase, outcome>>
    /\ rendered' = <<>>
    /\ UNCHANGED <<loopFrame, disk, idx, results, sessions>>

\* refreshTokensAndPersist going on after a write that failed
WriteSettles_unchecked ==
    /\ pc = "write"
    /\ \E written \in BOOLEAN :
        /\ disk' = IF written THEN [disk EXCEPT ![idx] = auth] ELSE disk
        /\ BeginUsage(auth, Append(trace, Event("write", auth.tokens.access_token,
                                               IF written THEN 1 ELSE 0, 0)),
                      IF phase = "reactive" THEN 2 ELSE 1)
    /\ rendered' = <<>>
    /\ UNCHANGED <<loopFrame, now, slowCalls, issued, idx, results, sessions>>

\* collectUsageForAuth making the retry inside the try block again
WriteSettles_retryGuarded ==
    /\ pc = "write"
    /\ \E written \in BOOLEAN :
        IF written
        THEN /\ disk' = [disk EXCEPT ![idx] = auth]
             /\ BeginUsage(auth, Append(trace, Event("write", auth.tokens.access_token, 1, 0)), 1)
        ELSE /\ disk' = disk
             /\ Return(Err("cannot write auth file"), auth,
                       Append(trace, Event("write", auth.tokens.access_token, 0, 0)))
    /\ rendered' = <<>>
    /\ UNCHANGED <<loopFrame, now, slowCalls, issued, idx, results, sessions>>

\* fs.writeFile settles; refreshTokensAndPersist returns and the usage call
\* is made: the first one after a proactive refresh, the retry after a
\* reactive one
WriteSettles ==
    /\ pc = "write"
    /\ \E written \in BOOLEAN :
        IF written
        THEN /\ disk' = [disk EXCEPT ![idx] = auth]
             /\ BeginUsage(auth, Append(trace, Event("write", auth.tokens.access_token, 1, 0)),
                           IF phase = "reactive" THEN 2 ELSE 1)
        ELSE /\ disk' = disk
             /\ Return(Err("cannot write auth file"), auth,
                       Append(trace, Event("write", auth.tokens.access_token, 0, 0)))
    /\ rendered' = <<>>
    /\ UNCHANGED <<loopFrame, now, slowCalls, issued, idx, results, sessions>>

\* the usage endpoint answers and the body is read to its end (also the
\* body of an answer that was arriving when the signal was tripped)
UsageSettles ==
    /\ pc = "usage"
    /\ \E d \in Latencies, status \in UsageStatuses, plan \in PlanTypes :
        /\ d > 0 => slowCalls < MaxSlowCalls
        /\ slowCalls' = IF d > 0 THEN slowCalls + 1 ELSE slowCalls
        /\ now' = now + d
        /\ LET tr == Append(trace, Event("ustatus", auth.tokens.access_token, status, now')) IN
           IF status = 200
           THEN Return(IF plan = "string" THEN OkOutcome ELSE OddOutcome, auth, tr)
           ELSE IF ShouldRetry(status, attempt, auth)
           THEN BeginRefresh(auth, tr, "reactive", auth.tokens.refresh_token)
           ELSE Return(Err(IF status = 401 THEN "usage failed: 401" ELSE "usage failed: 500"),
                       auth, tr)
    /\ rendered' = <<>>
    /\ UNCHANGED <<loopFrame, disk, issued, idx, results, sessions>>

\* a fetch in flight when the signal was tripped rejects with an AbortError
RemoteAborted ==
    /\ pc \in {"refresh", "usage"}
    /\ aborted
    /\ Return(AbortOutcome, auth, trace)
    /\ rendered' = <<>>
    /\ UNCHANGED <<loopFrame, now, disk, slowCalls, issued, idx, results, sessions>>

\* the sessions started since the process started, the running one included
SessionsStarted == NumAccounts * (Len(passStarts) - 1) + idx

\* renderOnce resumes after collectUsageForAuth: rethrow a cancellation, push
\* the result or the error record, go on with the next auth file or return
RenderOnceResume ==
    /\ pc = "returned"
    /\ (~isAbortError(outcome) /\ idx < NumAccounts) => SessionsStarted < MaxSessions
    /\ IF isAbortError(outcome)
       THEN /\ pc' = "pass_abort"
            /\ UNCHANGED <<idx, results, sessions, sessVars>>
       ELSE IF idx < NumAccounts
       THEN /\ results' = Append(results, ResultEntry(idx, outcome))
            /\ sessions' = Append(sessions, trace)
            /\ BeginSession(idx + 1)
       ELSE /\ results' = Append(results, ResultEntry(idx, outcome))
            /\ sessions' = Append(sessions, trace)
            /\ pc' = IF ensureNotAborted THEN "pass_abort" ELSE "pass_ok"
            /\ UNCHANGED <<idx, sessVars>>
    /\ rendered' = <<>>
    /\ UNCHANGED <<loopFrame, now, disk, slowCalls, issued>>

\* renderResults(results): the cards are printed one by one
Render ==
    /\ rendered' = Printed(results)
    /\ renders' = renders + 1

\* runTailLoop logging what renderStep threw and going on with the loop
PassSettles_continueAfterError ==
    /\ pc \in {"pass_ok", "pass_abort"}
    /\ IF pc = "pass_ok"
       THEN /\ Render
            /\ IF RenderThrows(results)
               THEN /\ errorLog' = IF tailMode /\ loop # "pass" THEN errorLog
                                   ELSE "value.charAt is not a function"
                    /\ UNCHANGED lastRenderAt
                    /\ IF ~tailMode
                       THEN /\ loop' = "rejected"
                            /\ ClearPass
                            /\ UNCHANGED <<waitDuration, passStarts>>
                       ELSE IF loop = "pass"
                       THEN /\ loop' = "sleep"
                            /\ waitDuration' = POLL_INTERVAL_MS
                            /\ ClearPass
                            /\ UNCHANGED passStarts
                       ELSE /\ ClearPass
                            /\ UNCHANGED <<loop, waitDuration, passStarts>>
               ELSE IF ~tailMode
               THEN /\ loop' = "done"
                    /\ ClearPass
                    /\ UNCHANGED <<lastRenderAt, waitDuration, passStarts, errorLog>>
               ELSE /\ lastRenderAt' = now
                    /\ errorLog' = errorLog
                    /\ IF loop = "pass"
                       THEN LoopTop(now, now)
                       ELSE /\ ClearPass
                            /\ UNCHANGED <<loop, waitDuration, passStarts>>
       ELSE /\ loop' = IF loop = "pass" THEN (IF tailMode THEN "quit" ELSE "rejected") ELSE loop
            /\ errorLog' = IF loop = "pass" /\ ~tailMode THEN AbortOutcome.error ELSE errorLog
            /\ ClearPass
            /\ rendered' = <<>>
            /\ UNCHANGED <<lastRenderAt, waitDuration, passStarts, renders>>
    /\ UNCHANGED <<jsonFlag, tailMode, now, disk, disk0, diskChanges, aborted, resolved,
                   quitKeys, aborts, resolves, lateTimers, slowCalls, issued, probe>>

\* the pass settles.  Single pass: main renders the results and returns, or
\* rejects with what renderResults threw.  Repeating mode: renderStep renders
\* and stamps lastRenderAt, and runTailLoop, unless the quit promise won the
\* race before, takes the outcome: the next turn of the loop after a render,
\* break after a cancellation, the failure logged and break after anything
\* else renderStep threw
PassSettles ==
    /\ pc \in {"pass_ok", "pass_abort"}
    /\ IF pc = "pass_ok"
       THEN /\ Render
            /\ IF RenderThrows(results)
               THEN /\ loop' = IF ~tailMode THEN "rejected"
                               ELSE IF loop = "pass" THEN "failed" ELSE loop
                    /\ errorLog' = IF tailMode /\ loop # "pass" THEN errorLog
                                   ELSE "value.charAt is not a function"
                    /\ ClearPass
                    /\ UNCHANGED <<lastRenderAt, waitDuration, passStarts>>
               ELSE IF ~tailMode
               THEN /\ loop' = "done"
                    /\ ClearPass
                    /\ UNCHANGED <<lastRenderAt, waitDuration, passStarts, errorLog>>
               ELSE /\ lastRenderAt' = now
                    /\ errorLog' = errorLog
                    /\ IF loop = "pass"
                       THEN LoopTop(now, now)
                       ELSE /\ ClearPass
                            /\ UNCHANGED <<loop, waitDuration, passStarts>>
       ELSE /\ loop' = IF loop = "pass" THEN (IF tailMode THEN "quit" ELSE "rejected") ELSE loop
            /\ errorLog' = IF loop = "pass" /\ ~tailMode THEN AbortOutcome.error ELSE errorLog
            /\ ClearPass
            /\ rendered' = <<>>
            /\ UNCHANGED <<lastRenderAt, waitDuration, passStarts, renders>>
    /\ UNCHANGED <<jsonFlag, tailMode, now, disk, disk0, diskChanges, aborted, resolved,
                   quitKeys, aborts, resolves, lateTimers, slowCalls, issued, probe>>

\* the timer of sleep(waitDuration) fires, on time or late, and the loop
\* takes its next turn
TickSettles ==
    /\ loop = "sleep"
    /\ now + waitDuration <= StartMs + HorizonMs
    /\ \E late \in BOOLEAN :
        /\ late => lateTimers < MaxLateTimers
        /\ lateTimers' = IF late THEN lateTimers + 1 ELSE lateTimers
        /\ now' = now + waitDuration + (IF late THEN TimerLagMs ELSE 0)
        /\ LoopTop(lastRenderAt, now')
    /\ rendered' = <<>>
    /\ UNCHANGED <<jsonFlag, tailMode, disk, disk0, diskChanges, aborted, resolved, quitKeys,
                   aborts, resolves, errorLog, lastRenderAt, slowCalls, issued,
                   renders, probe>>

\* chunks of stdin, a quit key (q, Q, Ctrl+C) among them, are read while the
\* loop waits in a race: the handler runs on each, the signal is tripped and
\* the quit promise resolved, the race settles with quit, runTailLoop breaks
\* and main's cleanup takes the handler off
Quit ==
    /\ tailMode
    /\ loop \in {"pass", "sleep"}
    /\ pc \notin {"returned", "pass_ok", "pass_abort"}
    /\ \E ks \in KeyBursts :
        LET h == HandleKeys([resolved |-> resolved, aborted |-> aborted, quitKeys |-> quitKeys,
                             aborts |-> aborts, resolves |-> resolves], ks) IN
        /\ resolved' = h.resolved
        /\ aborted' = h.aborted
        /\ quitKeys' = h.quitKeys
        /\ aborts' = h.aborts
        /\ resolves' = h.resolves
        /\ loop' = IF h.resolved THEN "quit" ELSE loop
    /\ rendered' = <<>>
    /\ UNCHANGED <<jsonFlag, tailMode, now, disk, disk0, diskChanges, errorLog, lastRenderAt,
                   waitDuration, passStarts, lateTimers,
                   slowCalls, issued, pc, idx, results, sessions, sessVars, renders, probe>>

\* between two passes an auth file is replaced from outside by a new login
AuthFileReplaced ==
    /\ loop = "sleep"
    /\ diskChanges < MaxDiskChanges
    /\ \E i \in Accounts :
        /\ disk[i] # LoginBundle
        /\ disk' = [disk EXCEPT ![i] = LoginBundle]
    /\ diskChanges' = diskChanges + 1
    /\ rendered' = <<>>
    /\ UNCHANGED <<jsonFlag, tailMode, now, disk0, aborted, resolved, quitKeys, aborts,
                   resolves, errorLog, loop, lastRenderAt, waitDuration, passStarts,
                   lateTimers, slowCalls, issued, pc, idx, results, sessions, sessVars,
                   renders, probe>>

Next ==
    \/ Start
    \/ ReadSettles
    \/ RefreshSettles
    \/ WriteSettles
    \/ UsageSettles
    \/ RemoteAborted
    \/ RenderOnceResume
    \/ PassSettles
    \/ TickSettles
    \/ Quit
    \/ AuthFileReplaced

Spec == Init /\ [][Next]_vars

\* ------------------------------------------------------------ the staleness check alone
\* access tokens of every shape: 1 to 3 segments, every kind of payload,
\* expiry claims around the skew margin of the times below
ProbeTimes == {StartMs, StartMs + 999, StartMs + 1000}
ProbeExps == {(StartMs \div 1000) + k : k \in {0, 59, 60, 61, 62, 100}}
ProbeTokens ==
    {Absent, EmptyStr}
    \cup {Tok(1, parts, payload, exp) :
            parts \in 1..3, payload \in PayloadKinds, exp \in ProbeExps}

InitStale ==
    /\ InitProgram
    /\ probe \in {[token |-> t, at |-> n, state |-> "asked", stale |-> FALSE] :
                    t \in ProbeTokens, n \in ProbeTimes}

\* shouldRefreshNow(probe.token) is called at time probe.at
CheckStale ==
    /\ probe.state = "asked"
    /\ probe' = [probe EXCEPT !.state = "answered",
                              !.stale = shouldRefreshNow(probe.token, probe.at)]
    /\ UNCHANGED <<jsonFlag, tailMode, now, disk, disk0, diskChanges, aborted, resolved,
                   quitKeys, aborts, resolves, errorLog, loop, lastRenderAt, waitDuration,
                   passStarts, lateTimers, slowCalls, issued, pc, idx, results, sessions,
                   sessVars, rendered, renders>>

NextStale == CheckStale

SpecStale == InitStale /\ [][NextStale]_vars


\* ------------------------------------------------------------ the single pass alone
\* main without --tail: no input handler, no signal that is ever tripped
InitOnce ==
    /\ Init
    /\ ~tailMode

NextOnce ==
    \/ Start
    \/ ReadSettles
    \/ RefreshSettles
    \/ WriteSettles
    \/ UsageSettles
    \/ RenderOnceResume
    \/ PassSettles

\* every read, write and remote call that is pending returns, and every
\* promise that has settled is resumed
SpecOnce == InitOnce /\ [][NextOnce]_vars /\ WF_vars(NextOnce)

\* ------------------------------------------------------------ reading the history
Sel(tr, ev) == SelectSeq(tr, LAMBDA e : e.ev = ev)
UsageCalls(tr) == Len(Sel(tr, "usage"))
TokenCalls(tr) == Len(Sel(tr, "token"))
UsageAnswers(tr) == Sel(tr, "ustatus")
TokenAnswers(tr) == Sel(tr, "tstatus")
Writes(tr) == Sel(tr, "write")
FirstIdx(tr, ev) == CHOOSE i \in 1..Len(tr) : tr[i].ev = ev /\ \A j \in 1..(i - 1) : tr[j].ev # ev
\* the first usage call of the session was answered 401
Unauthorized(tr) == UsageAnswers(tr) # <<>> /\ UsageAnswers(tr)[1].st = 401
\* what the session did after that answer
After401(tr) == SubSeq(tr, FirstIdx(tr, "ustatus") + 1, Len(tr))
\* a refresh of the history succeeded and was written to the auth file
Persisted(tr) ==
    /\ \E i \in 1..Len(tr) : tr[i].ev = "tstatus" /\ Truthy(tr[i].tok)
    /\ \E i \in 1..Len(tr) : tr[i].ev = "write" /\ tr[i].st = 1
InSession == pc \in {"refresh", "write", "usage", "returned"}

\* ------------------------------------------------------------ claims
\* C1 as stated: a session whose usage call is answered 401 while a refresh
\* token is available, and that is not cancelled, calls the token endpoint
\* exactly once and the usage endpoint exactly twice
C1_ExactlyOneRefreshOneRetry ==
    (pc = "returned" /\ outcome.kind # "abort" /\ Unauthorized(trace)
        /\ Truthy(auth.tokens.refresh_token))
    => (TokenCalls(trace) = 1 /\ UsageCalls(trace) = 2)

\* C1 amended: after a usage call is answered 401 while a refresh token is
\* available, the session, unless it is cancelled before, calls the token
\* endpoint exactly once more (beside a proactive refresh made before), and
\* retries the usage call at most once:
\* exactly once, with the newly issued access token, when that refresh
\* succeeded and was written and no cancellation came, not at all otherwise;
\* a second 401 ends the session with that failure and nothing after it
C1_SingleRetry ==
    (InSession /\ Unauthorized(trace) /\ Truthy(auth.tokens.refresh_token))
    => LET rest == After401(trace)
           answers == UsageAnswers(trace) IN
       /\ \/ TokenCalls(rest) = 1
          \/ (TokenCalls(rest) = 0 /\ aborted /\ pc = "returned" /\ outcome.kind = "abort")
       /\ TokenCalls(trace) <= 2
       /\ UsageCalls(rest) <= 1
       /\ UsageCalls(rest) = 1 =>
            /\ Persisted(rest)
            /\ Sel(rest, "usage")[1].tok = TokenAnswers(rest)[1].tok
            /\ Sel(rest, "usage")[1].tok # Sel(trace, "usage")[1].tok
       /\ (pc = "returned" /\ outcome.kind # "abort") =>
            (UsageCalls(rest) = 1 <=> Persisted(rest))
       /\ (Len(answers) = 2 /\ answers[2].st = 401) =>
            /\ pc = "returned"
            /\ outcome = Err("usage failed: 401")
            /\ trace[Len(trace)] = answers[2]

\* C1 witness: a session ended by the second 401
C1_Witness ==
    /\ pc = "returned"
    /\ Len(UsageAnswers(trace)) = 2
    /\ UsageAnswers(trace)[1].st = 401
    /\ UsageAnswers(trace)[2].st = 401


\* the error a bundle that cannot be used gives its account, "" for a usable one
BundleError(b) ==
    IF ~b.ok THEN "cannot read auth file"
    ELSE IF b.tokens.access_token.type # "str" THEN "auth.json does not contain ChatGPT tokens"
    ELSE ""

\* C2: a pass that is not cancelled returns exactly one record per configured
\* auth file, the i-th record for the i-th file; a session that fails with
\* anything but a cancellation becomes the error record of its own position
\* and the pass goes on with the next auth file; an unusable bundle shows as
\* its own account's error; only a cancellation ends a pass without results;
\* what is rendered is the results of a pass, in order, all of them unless a
\* card cannot be drawn
C2_PassIsolation ==
    /\ [](pc = "pass_ok" =>
            /\ Len(results) = NumAccounts
            /\ \A i \in Accounts :
                /\ results[i].authFile = i
                /\ BundleError(disk[i]) # "" => results[i].error = BundleError(disk[i]))
    /\ [](InSession => Len(results) = idx - 1)
    /\ [](pc = "pass_abort" => aborted)
    /\ [][(pc = "returned" /\ outcome.kind = "error") =>
            /\ results' = Append(results, [authFile |-> idx, error |-> outcome.error,
                                           plan |-> "none"])
            /\ (idx < NumAccounts /\ ~aborted) => (pc' = "read" /\ idx' = idx + 1)]_vars
    /\ [][renders' # renders =>
            /\ pc = "pass_ok"
            /\ Len(rendered') <= Len(results)
            /\ rendered' = SubSeq(results, 1, Len(rendered'))
            /\ (\A i \in 1..Len(results) : results[i].plan # "number") => rendered' = results]_vars

\* C2 witness: a pass returns its results after the first account failed and
\* the second succeeded
C2_Witness ==
    /\ pc = "pass_ok"
    /\ Len(results) = NumAccounts
    /\ results[1].error # ""
    /\ results[2].error = ""

\* C3: once the signal is tripped the running pass returns no results and
\* nothing is rendered, no record ever carries the cancellation as its error,
\* and the repeating loop has ended by break, not by a failure
C3_CancellationIsNoResult ==
    /\ aborted => (pc # "pass_ok" /\ rendered = <<>> /\ loop = "quit")
    /\ \A i \in 1..Len(results) : results[i].error # AbortOutcome.error
    /\ \A i \in 1..Len(rendered) : rendered[i].error # AbortOutcome.error

\* C3 witness: a pass cancelled during its second session, after the first
\* account's record was pushed, has ended without results
C3_Witness ==
    /\ aborted
    /\ pc = "pass_abort"
    /\ idx = 2
    /\ Len(results) = 1
    /\ loop = "quit"

\* C4: whenever a usage call is in flight with an access token a refresh of
\* this session returned, the auth file of the account holds that token (and
\* the whole bundle the session holds in memory)
C4_DiskNeverLags ==
    (pc = "usage" /\ TokenAnswers(trace) # <<>>)
    => LET issuedTok == TokenAnswers(trace)[Len(TokenAnswers(trace))].tok
           sent == trace[Len(trace)] IN
       /\ sent.ev = "usage"
       /\ sent.tok = issuedTok
       /\ disk[idx].tokens.access_token = issuedTok
       /\ disk[idx] = auth

\* C4 witness: the retry of the usage call is in flight with a refreshed token
C4_Witness ==
    /\ pc = "usage"
    /\ attempt = 2
    /\ TokenAnswers(trace) # <<>>


\* C5: when a refresh succeeded, the bundle about to be written holds the
\* issued access token, the id token and the refresh token of the response
\* where it carried them and the previous ones where it did not, and a
\* last_refresh taken no earlier than the answer of the token endpoint; a
\* write that succeeds puts exactly this bundle in the account's own auth
\* file, and a write that fails changes no file
C5_RefreshPersistsNewTokens ==
    /\ [](pc = "write" =>
            LET answer == TokenAnswers(trace)[Len(TokenAnswers(trace))]
                before == disk[idx].tokens IN
            /\ Truthy(refreshed.access_token)
            /\ auth.tokens.access_token = refreshed.access_token
            /\ auth.tokens.id_token =
                 IF Truthy(refreshed.id_token) THEN refreshed.id_token ELSE before.id_token
            /\ auth.tokens.refresh_token =
                 IF Truthy(refreshed.refresh_token) THEN refreshed.refresh_token
                 ELSE before.refresh_token
            /\ auth.last_refresh >= answer.at
            /\ auth.last_refresh <= now)
    /\ [][(pc = "write" /\ pc' # "write") =>
            IF Writes(trace')[Len(Writes(trace'))].st = 1
            THEN disk' = [disk EXCEPT ![idx] = auth]
            ELSE disk' = disk]_vars

\* C5 witness: a bundle was written after a slow refresh whose response
\* carried a new id token and no refresh token
C5_Witness ==
    /\ pc = "usage"
    /\ Persisted(trace)
    /\ disk[idx].tokens.access_token.name = 2
    /\ disk[idx].tokens.id_token = IdTok(2)
    /\ disk[idx].tokens.refresh_token = RefreshTok(1)
    /\ disk[idx].last_refresh = StartMs + SlowCallMs

\* C6: a session whose bundle has no refresh token never calls the token
\* endpoint; if its access token is a non-empty string, stale or not, and the
\* session is not cancelled, it makes exactly one usage call, with the access
\* token of the auth file, and ends with what that call returned
C6_NoRefreshTokenNoRefresh ==
    (InSession /\ ~Truthy(auth.tokens.refresh_token))
    => /\ TokenCalls(trace) = 0
       /\ (pc = "returned" /\ outcome.kind # "abort" /\ auth.ok
             /\ validateTokenBundle(auth.tokens)) =>
            /\ UsageCalls(trace) = 1
            /\ Sel(trace, "usage")[1].tok = disk[idx].tokens.access_token
            /\ Len(UsageAnswers(trace)) = 1
            /\ outcome.error = (CASE UsageAnswers(trace)[1].st = 200 -> ""
                                  [] UsageAnswers(trace)[1].st = 401 -> "usage failed: 401"
                                  [] OTHER -> "usage failed: 500")
            /\ outcome.kind = (IF UsageAnswers(trace)[1].st = 200 THEN "ok" ELSE "error")

\* C6 witness: a session with a stale access token and no refresh token ended
\* with the success of its only usage call
C6_Witness ==
    /\ pc = "returned"
    /\ auth.ok
    /\ shouldRefreshNow(auth.tokens.access_token, now)
    /\ ~Truthy(auth.tokens.refresh_token)
    /\ outcome = OkOutcome

\* C7: every usage call carries a non-empty access token, and a session
\* whose bundle has no access token or an empty one makes no remote call at
\* all and ends with the configuration error
C7_AccessTokenBeforeAnyCall ==
    /\ \A i \in 1..Len(trace) : trace[i].ev = "usage" => Truthy(trace[i].tok)
    /\ (InSession /\ auth.ok /\ auth.tokens.access_token.type # "str") =>
         /\ trace = <<>>
         /\ pc = "returned"
         /\ outcome = Err("auth.json does not contain ChatGPT tokens")

\* C7 witness: a session over a bundle with an empty access token and a
\* refresh token ended with an error
C7_Witness ==
    /\ pc = "returned"
    /\ auth.ok
    /\ auth.tokens.access_token = EmptyStr
    /\ Truthy(auth.tokens.refresh_token)
    /\ outcome.kind = "error"


\* C8: for an access token of at least two segments whose payload holds a
\* numeric exp, shouldRefreshNow is true exactly when the time in whole
\* seconds has reached exp - 60: false for an expiry more than 60 seconds
\* ahead, true for an expiry at most 60 seconds ahead; for every other token
\* (one segment, a payload that is not JSON, null, no exp, an exp that is no
\* number, no string at all) it is false
C8_StalenessRule ==
    probe.state = "answered"
    => LET t == probe.token
           nowSec == probe.at \div 1000 IN
       IF t.type = "str" /\ t.parts >= 2 /\ t.payload = "numexp"
       THEN /\ t.exp > nowSec + 60 => probe.stale = FALSE
            /\ t.exp <= nowSec + 60 => probe.stale = TRUE
       ELSE probe.stale = FALSE

\* C8 witness: a token expiring exactly 60 seconds ahead was found stale
C8_Witness ==
    /\ probe.state = "answered"
    /\ probe.token.payload = "numexp"
    /\ probe.token.exp = (probe.at \div 1000) + 60
    /\ probe.stale

\* C9 as stated: the start of a pass comes one cadence after the start of the
\* pass before it (a late timer allowed for), whatever the pass took
C9_CadenceBetweenStarts ==
    \A i \in 2..Len(passStarts) :
        /\ passStarts[i] - passStarts[i - 1] >= REFRESH_INTERVAL_MS
        /\ passStarts[i] - passStarts[i - 1] <= REFRESH_INTERVAL_MS + TimerLagMs

\* C10: every sleep of the loop is asked for the smaller of 500 ms and the
\* time left to the next pass, and never for 0; a quit key read during a
\* sleep ends the loop at once, with no time passing and no pass started; and
\* once the loop has ended by quit no pass is started any more
C10_TickBoundsCancellation ==
    /\ [](loop = "sleep" =>
            /\ waitDuration >= 1
            /\ waitDuration <= POLL_INTERVAL_MS
            /\ waitDuration = Min(POLL_INTERVAL_MS, REFRESH_INTERVAL_MS - (now - lastRenderAt)))
    /\ [][(loop = "sleep" /\ ~aborted /\ aborted') =>
            (loop' = "quit" /\ now' = now /\ passStarts' = passStarts /\ pc' = "none")]_vars
    /\ [][loop = "quit" => (loop' = "quit" /\ passStarts' = passStarts)]_vars

\* C10 witness: the loop was ended by a quit key during a sleep shorter than
\* 500 ms
C10_Witness ==
    /\ loop = "quit"
    /\ pc = "none"
    /\ waitDuration >= 1
    /\ waitDuration < POLL_INTERVAL_MS

\* C11: in repeating mode the loop goes from idle to running (a pass or a
\* tick wait) and from running to quit or failed only; quit and failed are
\* never left, and no pass is started and no tick wait begun in them; the loop
\* fails only when rendering the results of a pass throws, and then the
\* failure is logged, while a quit logs nothing; a pass whose results carry
\* errors of accounts and can be rendered leaves the loop running
C11_SchedulerStates ==
    /\ [][(tailMode /\ ~jsonFlag) =>
            /\ loop = "idle" => loop' \in {"idle", "pass"}
            /\ loop \in {"pass", "sleep"} => loop' \in {"pass", "sleep", "quit", "failed"}
            /\ loop \in {"quit", "failed"} =>
                 (loop' = loop /\ passStarts' = passStarts /\ waitDuration' = waitDuration)]_vars
    /\ [][(loop' = "failed" /\ loop # "failed") =>
            /\ tailMode
            /\ pc = "pass_ok"
            /\ \E i \in 1..Len(results) : results[i].error = "" /\ results[i].plan = "number"
            /\ errorLog = ""
            /\ errorLog' # ""]_vars
    /\ [][(loop' = "quit" /\ loop # "quit") => (aborted' /\ errorLog' = errorLog)]_vars
    /\ [][(tailMode /\ loop = "pass" /\ pc = "pass_ok"
              /\ \A i \in 1..Len(results) : results[i].plan # "number")
            => loop' \in {"pass", "sleep"}]_vars
    /\ []((tailMode /\ ~jsonFlag /\ errorLog # "") => loop = "failed")

\* C11 witness: the loop has failed after a pass in which the first account
\* failed and the card of the second could not be drawn
C11_Witness ==
    /\ tailMode
    /\ loop = "failed"
    /\ errorLog # ""
    /\ Len(passStarts) = 1
    /\ ~disk[1].ok

\* C12 as stated: with --json on the command line the program runs one pass,
\* prints its results once and ends, and never enters the repeating loop, also
\* when --tail is given
C12_JsonSinglePass ==
    (jsonFlag /\ loop # "idle")
    => /\ loop \in {"pass", "done"}
       /\ Len(passStarts) = 1
       /\ errorLog = ""
       /\ loop = "done" => renders = 1

\* the remote services and the file system work for a session of history tr:
\* the token endpoint answers every request with an access token, every write
\* succeeds, and every usage call made with an access token that is not stale
\* is answered 200
ServicesWork(tr) ==
    \A i \in 1..Len(tr) :
        /\ tr[i].ev = "tstatus" => Truthy(tr[i].tok)
        /\ tr[i].ev = "write" => tr[i].st = 1
        /\ (tr[i].ev = "ustatus" /\ ~shouldRefreshNow(tr[i].tok, tr[i].at)) => tr[i].st = 200

\* C13: a first pass over two bundles, the first with a fresh access token,
\* the second with an expired access token and a refresh token, the services
\* working, returns two records in configuration order, neither with an
\* error; the first auth file is as it was and was not written; the second
\* holds the access token the token endpoint issued, with which the usage
\* call was made, and a last_refresh of this run
C13_EndToEnd ==
    (/\ pc = "pass_ok"
     /\ Len(passStarts) = 1
     /\ disk0[1].ok /\ disk0[1].tokens.access_token = FreshAccess
     /\ disk0[2] = Bundle(StaleAccess, RefreshTok(1), IdTok(1), 0)
     /\ \A i \in 1..Len(sessions) : ServicesWork(sessions[i]))
    => /\ Len(results) = 2
       /\ Len(sessions) = 2
       /\ results[1].authFile = 1 /\ results[1].error = ""
       /\ results[2].authFile = 2 /\ results[2].error = ""
       /\ disk[1] = disk0[1]
       /\ Writes(sessions[1]) = <<>>
       /\ TokenCalls(sessions[1]) = 0
       /\ TokenCalls(sessions[2]) = 1
       /\ Len(Writes(sessions[2])) = 1
       /\ UsageCalls(sessions[2]) = 1
       /\ LET issuedTok == TokenAnswers(sessions[2])[1].tok IN
          /\ issuedTok # StaleAccess
          /\ disk[2].tokens.access_token = issuedTok
          /\ Sel(sessions[2], "usage")[1].tok = issuedTok
          /\ disk[2].last_refresh >= StartMs
          /\ disk[2] # disk0[2]

\* C13 witness: the pass of the scenario has returned its two records, the
\* second bundle rewritten with a rotated refresh token
C13_Witness ==
    /\ pc = "pass_ok"
    /\ Len(passStarts) = 1
    /\ disk0[1].tokens.access_token = FreshAccess
    /\ disk0[2] = Bundle(StaleAccess, RefreshTok(1), IdTok(1), 0)
    /\ Len(results) = 2
    /\ results[1].error = ""
    /\ results[2].error = ""
    /\ disk[1] = disk0[1]
    /\ disk[2].tokens.access_token.name = 2
    /\ disk[2].tokens.refresh_token = RefreshTok(2)

\* C14: a refresh that ends without an access token (a failure status, a
\* success without access_token, a cancellation before or during the call)
\* changes neither the bundle in memory nor any auth file and writes nothing;
\* the bundle in memory changes only when the token endpoint has answered with
\* an access token, and an auth file is written only with the bundle of such a
\* refresh (or replaced from outside); so outside a write the bundle in memory
\* is the auth file
C14_FailedRefreshChangesNothing ==
    /\ [][(pc = "refresh" /\ pc' = "returned") =>
            /\ auth' = auth
            /\ disk' = disk
            /\ Writes(trace') = Writes(trace)]_vars
    /\ [][(pc \in {"read", "usage"} /\ TokenCalls(trace') = TokenCalls(trace)
              /\ pc' = "returned" /\ outcome'.kind = "abort") =>
            /\ auth'.ok => auth' = disk[idx]
            /\ disk' = disk]_vars
    /\ [][(auth.ok /\ auth'.ok /\ auth' # auth) =>
            /\ pc = "refresh"
            /\ pc' = "write"
            /\ Truthy(refreshed'.access_token)
            /\ TokenAnswers(trace')[Len(TokenAnswers(trace'))].st = 200]_vars
    /\ [][(disk' # disk /\ diskChanges' = diskChanges) =>
            /\ pc = "write"
            /\ Truthy(refreshed.access_token)
            /\ Truthy(TokenAnswers(trace)[Len(TokenAnswers(trace))].tok)
            /\ disk' = [disk EXCEPT ![idx] = auth]]_vars
    /\ []((InSession /\ auth.ok /\ pc # "write"
             /\ \A i \in 1..Len(trace) : trace[i].ev = "write" => trace[i].st = 1)
           => auth = disk[idx])

\* C14 witness: a reactive refresh was answered with a success that carried
\* no access token, and the session ended with the bundle it had read
C14_Witness ==
    /\ pc = "returned"
    /\ phase = "reactive"
    /\ outcome = Err("no access_token was returned")
    /\ Writes(trace) = <<>>
    /\ auth = disk[idx]
    /\ auth = disk0[idx]

\* C15: while the loop runs it is either in a pass or in a tick wait: no pass
\* is in progress during a tick wait, and a pass is started only when none is
\* in progress (none yet, or the one before has just returned its results);
\* inside a pass the sessions run one at a time in configuration order: the
\* session of account i + 1 begins, with no remote call made yet, only when
\* the session of account i has ended, and no session that has ended has a
\* remote call in flight, so at most one remote call (refresh or usage) is
\* pending at any time
C15_OneActivityAtATime ==
    /\ [](loop = "sleep" => pc = "none")
    /\ [](loop = "pass" => pc # "none")
    /\ [][passStarts' # passStarts =>
            /\ pc \in {"none", "pass_ok"}
            /\ loop \in {"idle", "pass", "sleep"}
            /\ loop' = "pass"
            /\ passStarts' = Append(passStarts, now')]_vars
    /\ [][(idx' # idx /\ idx' > 1) =>
            /\ idx' = idx + 1
            /\ pc = "returned"
            /\ Len(sessions') = idx
            /\ sessions'[idx] = trace
            /\ trace' = <<>>]_vars
    /\ [](InSession => (Len(sessions) = idx - 1 /\ Len(results) = idx - 1))
    /\ [](\A i \in 1..Len(sessions) :
            sessions[i] = <<>> \/ sessions[i][Len(sessions[i])].ev \notin {"token", "usage"})

\* C15 witness: the refresh of the second account is pending after the
\* session of the first account, which made a refresh of its own, has ended
C15_Witness ==
    /\ tailMode
    /\ loop = "pass"
    /\ pc = "refresh"
    /\ idx = 2
    /\ Len(sessions) = 1
    /\ TokenCalls(sessions[1]) >= 1

\* C16: every session begins with nothing in memory and reads its auth file:
\* the bundle it holds after the read is the file as it is then; a first
\* usage call made without a refresh in the session carries the access token
\* of the file; so in a later pass a bundle that an earlier pass refreshed is
\* used with the refreshed access token, not the one the process started
\* with, and an auth file replaced between two passes is used as replaced
C16_FreshReadEveryPass ==
    /\ [][pc' = "read" => (auth' = Unreadable /\ trace' = <<>> /\ attempt' = 0)]_vars
    /\ [][(pc = "read" /\ pc' # "read" /\ disk[idx].ok) => auth' = disk[idx]]_vars
    /\ []((pc = "usage" /\ attempt = 1 /\ TokenCalls(trace) = 0) =>
            /\ trace = <<Event("usage", disk[idx].tokens.access_token, 0, 0)>>
            /\ auth = disk[idx])
    /\ []((pc = "usage" /\ attempt = 1 /\ TokenCalls(trace) = 0
             /\ Len(passStarts) > 1 /\ disk[idx] # disk0[idx]) =>
            /\ trace[1].tok # disk0[idx].tokens.access_token
            /\ trace[1].tok = (IF diskChanges > 0 /\ disk[idx] = LoginBundle
                               THEN LoginBundle.tokens.access_token
                               ELSE Tok(disk0[idx].tokens.access_token.name + 1, 3, "numexp",
                                        FreshExp)))

\* C16 witness: in the second pass the first usage call of an account whose
\* bundle the first pass refreshed is in flight with the refreshed token
C16_Witness ==
    /\ Len(passStarts) = 2
    /\ pc = "usage"
    /\ attempt = 1
    /\ TokenCalls(trace) = 0
    /\ diskChanges = 0
    /\ disk[idx] # disk0[idx]
    /\ trace[1].tok.name = 2

\* C17: however many quit keys (q, Q, Ctrl+C) are read, abort() and
\* resolveQuit() are called at most once each, and the state they lead to is
\* the one a single key leads to: the signal tripped, the quit promise
\* resolved, the loop left, everything else as it was; the loop is left at
\* once both when a remote call is in flight and when a tick timer is pending
C17_CancellationIdempotent ==
    /\ [](aborts <= 1 /\ resolves <= 1)
    /\ [](aborted = resolved)
    /\ [](aborted = (quitKeys >= 1))
    /\ [](quitKeys >= 1 => (aborts = 1 /\ resolves = 1 /\ loop = "quit"))
    /\ [][quitKeys' # quitKeys =>
            /\ loop \in {"pass", "sleep"}
            /\ loop' = "quit"
            /\ aborted' /\ resolved' /\ aborts' = 1 /\ resolves' = 1
            /\ UNCHANGED <<now, disk, pc, idx, results, sessVars, passStarts, lastRenderAt,
                           renders, errorLog>>]_vars
    /\ [][(loop = "sleep" /\ aborted') => loop' = "quit"]_vars
    /\ [][(pc \in {"refresh", "usage"} /\ ~aborted /\ aborted') => loop' = "quit"]_vars
    /\ [][(aborted /\ pc \in {"refresh", "usage"}) => pc' \in {pc, "returned", "write"}]_vars

\* C17 witness: two quit keys were read while a usage call was in flight
C17_Witness ==
    /\ quitKeys = 2
    /\ aborts = 1
    /\ resolves = 1
    /\ loop = "quit"
    /\ pc = "usage"

\* C18: once the signal is tripped no usage call and no call of the token
\* endpoint is started, also not the refresh after a 401 that was received
\* and not the retry after a refresh that was written, and nothing is
\* rendered at or after the step that trips it
C18_NoCallAfterAbort ==
    /\ [][aborted =>
            /\ UsageCalls(trace') <= UsageCalls(trace)
            /\ TokenCalls(trace') <= TokenCalls(trace)]_vars
    /\ [][aborted' => (renders' = renders /\ rendered' = <<>>)]_vars
    /\ [][(aborted /\ pc \in {"read", "write"}) => pc' \in {pc, "returned"}]_vars
    /\ []((aborted /\ pc \in {"refresh", "usage"}) => trace[Len(trace)].ev \in {"token", "usage"})

\* C18 witness: after the loop was left a usage call of the pass was answered
\* 401, a refresh token being there, and the session ended cancelled without
\* a call of the token endpoint
C18_Witness ==
    /\ aborted
    /\ loop = "quit"
    /\ pc = "returned"
    /\ outcome = AbortOutcome
    /\ Truthy(auth.tokens.refresh_token)
    /\ trace # <<>>
    /\ trace[Len(trace)].ev = "ustatus"
    /\ trace[Len(trace)].st = 401
    /\ TokenCalls(trace) = 0

\* C19: when the token endpoint has answered with an access token the
\* mutated bundle goes to its write at once, whether the signal is tripped or
\* not, and the write, once it settles with success, has put the bundle in the
\* auth file: every answer that issued a token is followed in the session by
\* a write
C19_IssuedPairIsWritten ==
    /\ [][(pc = "refresh" /\ Len(TokenAnswers(trace')) > Len(TokenAnswers(trace))
              /\ Truthy(TokenAnswers(trace')[Len(TokenAnswers(trace'))].tok)) =>
            /\ pc' = "write"
            /\ auth'.tokens.access_token = TokenAnswers(trace')[Len(TokenAnswers(trace'))].tok]_vars
    /\ [][(pc = "write" /\ pc' # "write") =>
            /\ Len(Writes(trace')) = Len(Writes(trace)) + 1
            /\ Writes(trace')[Len(Writes(trace'))].st = 1 => disk'[idx] = auth]_vars
    /\ [][pc = "write" => pc' \in {"write", "usage", "returned"}]_vars
    /\ [](\A i \in 1..Len(trace) :
            (trace[i].ev = "tstatus" /\ Truthy(trace[i].tok)) =>
                IF pc = "write" /\ i = Len(trace) - 1
                THEN trace[i + 1].ev = "rotated"
                ELSE i + 2 <= Len(trace) /\ trace[i + 2].ev = "write")

\* C19 witness: a session of a pass that was cancelled ended after its
\* refreshed bundle was written to the auth file
C19_Witness ==
    /\ aborted
    /\ pc = "returned"
    /\ outcome = AbortOutcome
    /\ Persisted(trace)
    /\ trace[Len(trace)].ev = "write"
    /\ disk[idx] = auth
    /\ disk[idx].tokens.access_token.name = 2

\* C20: every request to the token endpoint carries the refresh token the
\* bundle holds at that time, a non-empty string; a refresh that succeeds
\* stores the refresh token of the response when it carries one and keeps the
\* previous one when it does not; so the second request of a session carries
\* the refresh token the first response rotated to, or the first one again
\* when the response rotated none
C20_CurrentRefreshTokenSent ==
    /\ [](\A i \in 1..Len(trace) : trace[i].ev = "token" => Truthy(trace[i].tok))
    /\ [](pc = "refresh" =>
            /\ trace[Len(trace)].ev = "token"
            /\ trace[Len(trace)].tok = auth.tokens.refresh_token)
    /\ [][(pc = "refresh" /\ pc' = "write") =>
            auth'.tokens.refresh_token =
                IF Truthy(refreshed'.refresh_token) THEN refreshed'.refresh_token
                ELSE auth.tokens.refresh_token]_vars
    /\ [](TokenCalls(trace) = 2 =>
            LET first == Sel(trace, "token")[1].tok
                second == Sel(trace, "token")[2].tok
                rotated == Sel(trace, "rotated")[1].tok IN
            IF Truthy(rotated) THEN second = rotated /\ second # first ELSE second = first)

\* C20 witness: a reactive refresh is in flight with the refresh token the
\* proactive refresh of the session rotated to
C20_Witness ==
    /\ pc = "refresh"
    /\ phase = "reactive"
    /\ TokenCalls(trace) = 2
    /\ Sel(trace, "token")[1].tok = RefreshTok(1)
    /\ Sel(trace, "token")[2].tok = RefreshTok(2)

\* the call of the token endpoint at place i of history tr is the proactive
\* one, made before any usage call
IsProactiveCall(tr, i) == tr[i].ev = "token" /\ i = 1

\* the call of the token endpoint at place i of history tr is the reactive
\* one, made on the 401 answer to the first usage call
IsReactiveCall(tr, i) ==
    /\ tr[i].ev = "token"
    /\ i > 1
    /\ tr[i - 1].ev = "ustatus"
    /\ tr[i - 1].st = 401
    /\ UsageCalls(SubSeq(tr, 1, i)) = 1

\* at most two usage calls and two calls of the token endpoint in history
\* tr, each of the latter the proactive or the reactive one
CallsBounded(tr) ==
    /\ UsageCalls(tr) <= 2
    /\ TokenCalls(tr) <= 2
    /\ \A i \in 1..Len(tr) :
        tr[i].ev = "token" => (IsProactiveCall(tr, i) \/ IsReactiveCall(tr, i))

\* C21: a session calls the usage endpoint at most twice and the token
\* endpoint at most twice, once before any usage call and once on the 401
\* answer to the first usage call; and when every pending read, write and
\* remote call returns, every session that was started ends and the single
\* pass that was started finishes
C21_SessionTerminates ==
    /\ [](CallsBounded(trace))
    /\ [](\A k \in 1..Len(sessions) : CallsBounded(sessions[k]))
    /\ [](Len(sessions) <= NumAccounts)
    /\ (pc \in {"read", "refresh", "write", "usage"}) ~> (pc = "returned")
    /\ (loop = "pass") ~> (loop \in {"done", "rejected"})

\* C21 witness: the pass has run all its sessions, and one of them made two
\* usage calls and two calls of the token endpoint and ended with a result
C21_Witness ==
    /\ pc = "pass_ok"
    /\ Len(sessions) = NumAccounts
    /\ \E k \in 1..Len(sessions) :
        /\ UsageCalls(sessions[k]) = 2
        /\ TokenCalls(sessions[k]) = 2
        /\ results[k].error = ""

====
